---- MODULE Spec2Model ----
(***************************************************************************)
(* Request/response correlation over pub/sub in pubsub-mcp.                *)
(*                                                                         *)
(* Two services hold one correlation registry each:                        *)
(*   McpBridgeServiceLive (ai-svc, agent.service.ts): callTool and         *)
(*     handleResponse over mcp-tool-requests / mcp-tool-responses;         *)
(*   LlmClientServiceLive (readme-mcp, llm-client.service.ts): sample and  *)
(*     handleResponse over ai-stream / ai-stream-responses.                *)
(*                                                                         *)
(* A call is a fiber of the Effect runtime.  Its steps are cut at the      *)
(* points where the fiber suspends: the publish (an HTTP call to the       *)
(* sidecar), and the race of Deferred.await against Effect.sleep.          *)
(* Effect.race(L, R) is the library's "first success" race: the first arm  *)
(* that SUCCEEDS wins and the other arm is interrupted; an arm that FAILS  *)
(* does not end the race, the race then joins the other arm, and when both *)
(* arms have failed the race fails with Cause.parallel(causeL, causeR).    *)
(* handleResponse runs without suspending and is one step.                 *)
(*                                                                         *)
(* Specifications:                                                         *)
(*   Spec       the bridge and its response route, the channel posting     *)
(*              well-formed response events; FairSpec adds the fairness    *)
(*              of the runtime;                                            *)
(*   RouterSpec the same behind a channel that posts any request body;     *)
(*   TimedSpec  the same on a clock;                                       *)
(*   ExecSpec   readme-mcp's tool route with its LlmClient bridge and the  *)
(*              sampling branch of ai-svc's POST /ai-events.               *)
(***************************************************************************)
EXTENDS Integers, Sequences, FiniteSets, TLC

-----------------------------------------------------------------------------
(* Bounds *)

MaxCalls == 2

MaxToolRequests == 2

MaxInvocations == 3

-----------------------------------------------------------------------------
(* Program constants *)

toolTimeout == 30000

SamplingTimeoutDefault == 30000

Bridges == {"McpBridge", "LlmClient"}

\* callTool's toolName argument; sample has none, its errors say "sample".
ToolNames == {"validate-readme"}

\* JavaScript's undefined: an optional field of a response that is absent.
Undefined == "undefined"

\* response.result (tool) / response.content (sampling) values on the wire.
Payloads == {"r1", "r2"}

\* response.error values on the wire: the empty string is a set field too.
ErrorStrings == {"", "boom"}

Calls == 1..MaxCalls

\* Correlation ids that can appear on the wire: those uuidv4() hands out
\* here, and one that this process never issues (a peer's request).
UnknownId == MaxCalls + 1

WireIds == 1..(MaxCalls + 1)

-----------------------------------------------------------------------------
VARIABLES
  svc,             \* which of the two bridge instances this process runs
  pendingRequests, \* its Ref<Map<requestId, PendingRequest>>
  nextId,          \* uuidv4(): never repeats; ids below nextId are handed out
  pc,              \* per call: where the fiber of callTool/sample stands
  toolName,        \* per call: the operation label
  requestId,       \* per call: its correlation id
  deferred,        \* per call: the Deferred created for it
  timer,           \* per call: the timeout arm of the race
  outcome,         \* per call: the Exit of callTool/sample
  lastLog,         \* the branch handleResponse took for the last event routed
  published,       \* per call: the topics its request envelope went out on
  replies,         \* the HTTP replies the response route sent for the last event
  elapsed,         \* per call: clock time since the call was issued
  slept,           \* per call: clock time since Effect.sleep began
  toolRequests,    \* per tool request: where its handler in readme-mcp stands
  toolReplies,     \* per tool request: the HTTP replies its handler sent
  toolResponses,   \* the envelopes published on mcp-tool-responses
  aiStreamResponses, \* the responses ai-svc published on ai-stream-responses
  aiReplies,       \* the HTTP replies /ai-events sent for the last event
  registry,        \* ai-svc: Ref<AgentRegistry>, agent id to compiled graph
  startup,         \* ai-svc: where registerDefaultAgents stands
  stateStore,      \* the Dapr state store, key to ChatSessionState
  invocations,     \* per agent request: where its invokeAgent stands
  graphs,          \* per run of the README agent graph: its node and state
  aiEvents         \* per event posted to /ai-events: what its handler did

\* The bridge and its response route.
bridgeVars == <<svc, pendingRequests, nextId, pc, toolName, requestId,
                deferred, timer, outcome, lastLog, published, replies>>

\* The clock, read only where time is measured.
clockVars == <<elapsed, slept>>

\* The tool executor of readme-mcp and the sampling handler of ai-svc.
execVars == <<toolRequests, toolReplies, toolResponses, aiStreamResponses,
              aiReplies>>

\* The agent service of ai-svc and the chat histories.
agentVars == <<registry, startup, stateStore, invocations, graphs,
               aiEvents>>

\* What the steps of the tool and sampling handlers leave alone.
nonExecVars == <<clockVars, agentVars>>

\* What the steps of a call and of the response route leave alone.
nonBridgeVars == <<clockVars, execVars, agentVars>>

vars == <<bridgeVars, clockVars, execVars, agentVars>>

-----------------------------------------------------------------------------
(* Values *)

\* Errors are records of one shape; a field that an error class does not
\* have holds the value it has in NoError.
NoError == [tag |-> "none", operation |-> "", message |-> "",
            requestId |-> UnknownId, timeoutMs |-> 0]

\* new McpToolError(toolName, cause) / new LlmClientError({operation, message})
RemoteError(b, label, err) ==
  [tag |-> IF b = "McpBridge" THEN "McpToolError" ELSE "LlmClientError",
   operation |-> label, message |-> err, requestId |-> UnknownId, timeoutMs |-> 0]

\* new McpToolTimeoutError(toolName, requestId, toolTimeout) /
\* new TimeoutError({operation: "sample", timeoutMs, message: `... ${requestId} ...`})
TimeoutErrorOf(b, label, id, ms) ==
  [tag |-> IF b = "McpBridge" THEN "McpToolTimeoutError" ELSE "TimeoutError",
   operation |-> label, message |-> "timed out",
   requestId |-> id, timeoutMs |-> ms]

\* new DaprError("publishEvent", error)
DaprError ==
  [tag |-> "DaprError", operation |-> "publishEvent", message |-> "",
   requestId |-> UnknownId, timeoutMs |-> 0]

\* The configured timeout of a bridge.
TimeoutMs(b) == IF b = "McpBridge" THEN toolTimeout ELSE SamplingTimeoutDefault

\* The label a call's errors carry.
Labels(b) == IF b = "McpBridge" THEN ToolNames ELSE {"sample"}

\* A response that was never sent.
NoResponse == [requestId |-> UnknownId, result |-> Undefined,
               error |-> Undefined]

\* Deferred.make(): not completed.  "by" remembers the response that
\* completed the deferred; the program keeps no such field.
PendingDeferred == [state |-> "pending", value |-> Undefined,
                    error |-> NoError, by |-> NoResponse]

NoOutcome == [tag |-> "none", value |-> Undefined, cause |-> <<>>]

\* Responses the channel can hand to the router: McpToolResponse /
\* SamplingResponse with the optional fields present or absent.
Responses ==
  [requestId : WireIds, result : Payloads, error : {Undefined}]
    \cup [requestId : WireIds, result : {Undefined}, error : ErrorStrings]

\* if (response.error): undefined and "" are falsy.
Truthy(e) == e # Undefined /\ e # ""

\* Both bridges publishing their requests to the one topic ai-stream.
RequestTopicShared(b) == "ai-stream"

\* The topic a bridge publishes its requests to: toolRequestTopic /
\* config.getTopicName.
RequestTopic(b) == IF b = "McpBridge" THEN "mcp-tool-requests" ELSE "ai-stream"

\* The event type a bridge's response route forwards to handleResponse.
ResponseType(b) ==
  IF b = "McpBridge" THEN "mcp.tool.response" ELSE "mcp.sampling.response"

EventTypes == {"mcp.tool.response", "mcp.sampling.response"}

\* A CloudEvent as the sidecar posts it to a route; data is the response.
CloudEvent(type, data) ==
  [specversion |-> "1.0", type |-> type, source |-> "peer", id |-> "e",
   data |-> data]

\* Schema.decodeUnknown(CloudEventSchema): specversion, type, source and id
\* are required strings, data is unknown.
CloudEventSchemaOk(event) ==
  /\ event.specversion # Undefined
  /\ event.type # Undefined
  /\ event.source # Undefined
  /\ event.id # Undefined

\* Responses inside the envelopes a route has to leave alone.
ProbeResponses == {r \in Responses : r.result = "r1"}

\* A request body that lacks the required field specversion.
WithoutSpecversion(event) == [event EXCEPT !.specversion = Undefined]

\* Request bodies the channel can post to the response route of bridge b:
\* for every correlation id, well-formed events of the expected type with
\* one success and one error response, and, around the success response,
\* an event of the other type and an event with a required field missing.
Events(b) ==
  {CloudEvent(ResponseType(b), r) :
     r \in {x \in Responses : x.result = "r1" \/ x.error = "boom"}}
    \cup {CloudEvent(t, r) : t \in EventTypes, r \in ProbeResponses}
    \cup {WithoutSpecversion(CloudEvent(ResponseType(b), r)) :
            r \in ProbeResponses}

-----------------------------------------------------------------------------
(* Values of the tool executor *)

\* Tool requests are numbered as they arrive; the number is the requestId.
ToolRequestIds == 1..MaxToolRequests

\* toolRequest.tool: two of routeToTool's cases and a name it does not know.
Tools == {"validate-readme", "suggest-improvements", "no-such-tool"}

\* The result routeToTool returns: the ValidationResult of validate-readme
\* or {suggestions: response} of suggest-improvements.
NoResult == [validation |-> Undefined, suggestions |-> Undefined]

ValidationResult == [validation |-> "validated", suggestions |-> Undefined]

Suggestions(response) == [validation |-> Undefined, suggestions |-> response]

\* new Error(`Unknown tool: ${toolName}`)
UnknownToolError(tool) == "Unknown tool: " \o tool

\* data of a tool request: {requestId, tool, arguments}; content is
\* arguments.content.
McpToolRequest(t, tool, content) ==
  [requestId |-> t, tool |-> tool, content |-> content]

\* Request bodies the channel can post to the tool route for request t:
\* a request for each tool with content, validate-readme without content,
\* a well-formed event of another type and a body without specversion.
ToolEvents(t) ==
  {CloudEvent("mcp.tool.request", McpToolRequest(t, tool, "# X")) :
     tool \in Tools}
    \cup {CloudEvent("mcp.tool.request",
                     McpToolRequest(t, "validate-readme", Undefined)),
          CloudEvent("mcp.tool.response",
                     McpToolRequest(t, "validate-readme", "# X")),
          WithoutSpecversion(
            CloudEvent("mcp.tool.request",
                       McpToolRequest(t, "validate-readme", "# X")))}

\* A handler that has not started.  call is the sample call it made, if
\* any; kind tells which branch of the route the event took.
NoToolRequest == [pc |-> "none", kind |-> "none", tool |-> Undefined,
                  call |-> MaxCalls + 1, result |-> NoResult]

\* The model behind ai-svc's LLM: the content it generates, or a failure.
LlmResults == Payloads \cup {Undefined}

-----------------------------------------------------------------------------
(* Values of the agent service of ai-svc *)

\* Agent requests are numbered as they are handled.
Invocations == 1..MaxInvocations

\* The ids of defaultAgents in registerDefaultAgents.
DefaultAgents == {"default", "assistant"}

\* agentData.agentId of a request: a registered agent or an unknown one.
RequestedAgents == {"readme-agent", "no-such-agent"}

\* agentData.sessionId: optional.
SessionIds == {"s1", "s2"}

\* The text of the i-th request; String(result.output) of the agent's
\* answer to it.
UserContent(i) == <<"input", i>>

Output(i) == <<"output", i>>

\* ChatMessage {role, content}; its timestamp is left out.
ChatMessage(role, content) == [role |-> role, content |-> content]

\* null, as state.get gives it for a key that was never saved.
NoState == [sessionId |-> Undefined, agentId |-> Undefined, messages |-> <<>>,
            created_at |-> 0, updated_at |-> 0]

\* new Date().toISOString() in the i-th request: the requests' clock
\* readings differ and are numbered like the requests.
Now(i) == i

\* One key for every session.
ChatStateKeyShared(sessionId) == "ChatSessionActor::chatState"

\* `${ACTOR_TYPE}:${sessionId}:chatState`
ChatStateKey(sessionId) == "ChatSessionActor:" \o sessionId \o ":chatState"

\* client.state.get(STATE_STORE, key)
StateGet(store, key) == IF key \in DOMAIN store THEN store[key] ELSE NoState

\* client.state.save(STATE_STORE, [{key, value}])
StateSave(store, key, value) ==
  [k \in DOMAIN store \cup {key} |-> IF k = key THEN value ELSE store[k]]

\* A run of the README agent graph per call slot: a run makes at most one
\* tool call.
GraphRuns == 1..MaxCalls

\* userMessage.content.toString(): empty or a README text.
ReadmeContents == {"", "# X"}

\* The graph state's validationResult: null, {error}, or the tool's result.
NoValidation == [error |-> Undefined, result |-> Undefined]

\* A run that has not started.  call is the callTool it made, toolCalls
\* counts the callTool invocations of the run.
NoGraphRun == [node |-> "none", readmeContent |-> Undefined,
               validationResult |-> NoValidation, call |-> MaxCalls + 1,
               toolCalls |-> 0]

\* The events POST /ai-events handles, in the order they arrive.
MaxEvents == 2

EventIds == 1..MaxEvents

\* decoded.type: the two types the route names, and the type the sidecar
\* gives a payload that was published bare.
AiEventTypes == {"agent.request", "sampling.request", "com.dapr.event.sent"}

\* decoded.data (Schema.Unknown): null, or an object with or without
\* requestId, agentId and sessionId.  "" is a requestId that is falsy.
AiData(id, agentId, sessionId) ==
  [isNull |-> FALSE, requestId |-> id, agentId |-> agentId,
   sessionId |-> sessionId]

NullData ==
  [isNull |-> TRUE, requestId |-> Undefined, agentId |-> Undefined,
   sessionId |-> Undefined]

AiEventData ==
  {NullData,
   AiData(Undefined, Undefined, Undefined),
   AiData("", Undefined, Undefined),
   AiData("q1", Undefined, Undefined),
   AiData(Undefined, "default", "s1"),
   AiData("q1", "default", Undefined)}

AiEvents == {CloudEvent(type, data) : type \in AiEventTypes, data \in AiEventData}

\* An event that has not arrived.  agentCalls, samplingCalls and publishes
\* count the calls of messageHandler.handleMessage, samplingService.sample
\* and dapr.publishEvent its handler made; reply is what res sent.
NoAiEvent ==
  [pc |-> "none", event |-> CloudEvent("none", NullData), agentCalls |-> 0,
   samplingCalls |-> 0, publishes |-> 0, reply |-> <<>>, invocation |-> 0]

\* An invokeAgent that has not started.  reads counts its getChatHistory
\* calls, saved tells whether its saveChatHistory succeeded; the program
\* keeps neither.
NoInvocation == [pc |-> "none", agentId |-> Undefined, sessionId |-> Undefined,
                 chatHistory |-> <<>>, existingState |-> NoState,
                 output |-> <<>>, error |-> "none", reads |-> 0,
                 saved |-> FALSE]

-----------------------------------------------------------------------------
(* Ref<Map<string, PendingRequest>> *)

\* map.set(requestId, {deferred, timestamp, toolName})
MapSet(map, id, rec) ==
  [k \in DOMAIN map \cup {id} |-> IF k = id THEN rec ELSE map[k]]

\* A delete that empties the map.
MapClear(map, id) == [k \in {} |-> map[k]]

\* map.delete(requestId)
MapDelete(map, id) == [k \in DOMAIN map \ {id} |-> map[k]]

\* undefined, as Map.get gives it for a missing key.
NoRequest == [deferred |-> MaxCalls + 1, toolName |-> Undefined]

\* new Map()
EmptyMap == [k \in {} |-> NoRequest]

-----------------------------------------------------------------------------
Init ==
  /\ svc \in Bridges
  /\ pendingRequests = EmptyMap
  /\ nextId = 1
  /\ pc = [c \in Calls |-> "idle"]
  /\ toolName = [c \in Calls |-> ""]
  /\ requestId = [c \in Calls |-> UnknownId]
  /\ deferred = [c \in Calls |-> PendingDeferred]
  /\ timer = [c \in Calls |-> "none"]
  /\ outcome = [c \in Calls |-> NoOutcome]
  /\ lastLog = "none"
  /\ published = [c \in Calls |-> <<>>]
  /\ replies = <<>>
  /\ elapsed = [c \in Calls |-> 0]
  /\ slept = [c \in Calls |-> 0]
  /\ toolRequests = [t \in ToolRequestIds |-> NoToolRequest]
  /\ toolReplies = [t \in ToolRequestIds |-> <<>>]
  /\ toolResponses = {}
  /\ aiStreamResponses = {}
  /\ aiReplies = <<>>
  /\ registry = [a \in {} |-> ""]
  /\ startup = [pc |-> "defaults", todo |-> DefaultAgents]
  /\ stateStore = [k \in {} |-> NoState]
  /\ invocations = [i \in Invocations |-> NoInvocation]
  /\ graphs = [g \in GraphRuns |-> NoGraphRun]
  /\ aiEvents = [e \in EventIds |-> NoAiEvent]

-----------------------------------------------------------------------------
(* callTool / sample, up to the publish *)

\* A registration that hands every call the same correlation id.
RegisterSameId(c, label) ==
  /\ pc[c] = "idle"
  /\ \A d \in Calls : d < c => pc[d] # "idle"
  /\ nextId <= MaxCalls
  /\ requestId' = [requestId EXCEPT ![c] = 1]
  /\ nextId' = nextId + 1
  /\ toolName' = [toolName EXCEPT ![c] = label]
  /\ pendingRequests' =
       MapSet(pendingRequests, 1, [deferred |-> c, toolName |-> label])
  /\ pc' = [pc EXCEPT ![c] = "publishing"]
  /\ UNCHANGED <<svc, deferred, timer, outcome, lastLog, published, replies>>

\* requestId = uuidv4(); Deferred.make(); Ref.update(map.set(...));
\* the fiber then suspends in dapr.publishEvent.
Register(c, label) ==
  /\ pc[c] = "idle"
  /\ \A d \in Calls : d < c => pc[d] # "idle"
  /\ nextId <= MaxCalls
  /\ requestId' = [requestId EXCEPT ![c] = nextId]
  /\ nextId' = nextId + 1
  /\ toolName' = [toolName EXCEPT ![c] = label]
  /\ pendingRequests' =
       MapSet(pendingRequests, nextId, [deferred |-> c, toolName |-> label])
  /\ pc' = [pc EXCEPT ![c] = "publishing"]
  /\ UNCHANGED <<svc, deferred, timer, outcome, lastLog, published, replies>>

\* A publish that sends the envelope again before the race starts.
PublishOkTwice(c) ==
  /\ pc[c] = "publishing"
  /\ pc' = [pc EXCEPT ![c] = "racing"]
  /\ timer' = [timer EXCEPT ![c] = "sleeping"]
  /\ published' = [published EXCEPT
       ![c] = Append(Append(@, RequestTopic(svc)), RequestTopic(svc))]
  /\ UNCHANGED <<svc, pendingRequests, nextId, toolName, requestId, deferred,
                 outcome, lastLog, replies>>

\* publishEvent resolved: the race starts, the timeout arm goes to sleep.
PublishOk(c) ==
  /\ pc[c] = "publishing"
  /\ pc' = [pc EXCEPT ![c] = "racing"]
  /\ timer' = [timer EXCEPT ![c] = "sleeping"]
  /\ published' = [published EXCEPT ![c] = Append(@, RequestTopic(svc))]
  /\ UNCHANGED <<svc, pendingRequests, nextId, toolName, requestId, deferred,
                 outcome, lastLog, replies>>

\* publishEvent rejected: the generator fails with the DaprError at the
\* yield*; nothing after it runs.
PublishFail(c) ==
  /\ pc[c] = "publishing"
  /\ pc' = [pc EXCEPT ![c] = "done"]
  /\ outcome' = [outcome EXCEPT
       ![c] = [tag |-> "fail", value |-> Undefined, cause |-> <<DaprError>>]]
  /\ UNCHANGED <<svc, pendingRequests, nextId, toolName, requestId, deferred,
                 timer, lastLog, published, replies>>

-----------------------------------------------------------------------------
(* The race *)

\* The timeout arm: Effect.sleep elapsed, Ref.update(map.delete(requestId)),
\* Effect.fail(timeout error).  It runs as long as nothing interrupted it.
TimeoutArm(c) ==
  /\ pc[c] = "racing"
  /\ timer[c] = "sleeping"
  /\ timer' = [timer EXCEPT ![c] = "failed"]
  /\ pendingRequests' = MapDelete(pendingRequests, requestId[c])
  /\ UNCHANGED <<svc, nextId, pc, toolName, requestId, deferred, outcome,
                 lastLog, published, replies>>

\* Deferred.await succeeded: the race is won, the timeout arm is interrupted
\* if it still sleeps, and the fiber goes on to the cleanup.
AwaitSucceeded(c) ==
  /\ pc[c] = "racing"
  /\ deferred[c].state = "succeeded"
  /\ timer' = [timer EXCEPT
       ![c] = IF @ = "sleeping" THEN "interrupted" ELSE @]
  /\ pc' = [pc EXCEPT ![c] = "cleanup"]
  /\ UNCHANGED <<svc, pendingRequests, nextId, toolName, requestId, deferred,
                 outcome, lastLog, published, replies>>

\* Both arms failed: the race fails with Cause.parallel(await, timeout);
\* the generator fails at the yield* and the cleanup after it does not run.
RaceFailed(c) ==
  /\ pc[c] = "racing"
  /\ deferred[c].state = "failed"
  /\ timer[c] = "failed"
  /\ pc' = [pc EXCEPT ![c] = "done"]
  /\ outcome' = [outcome EXCEPT
       ![c] = [tag |-> "fail", value |-> Undefined,
               cause |-> <<deferred[c].error,
                           TimeoutErrorOf(svc, toolName[c], requestId[c],
                                          TimeoutMs(svc))>>]]
  /\ UNCHANGED <<svc, pendingRequests, nextId, toolName, requestId, deferred,
                 timer, lastLog, published, replies>>

\* A return that skips the cleanup and leaves the record in the map.
CleanupKeepsRecord(c) ==
  /\ pc[c] = "cleanup"
  /\ pc' = [pc EXCEPT ![c] = "done"]
  /\ outcome' = [outcome EXCEPT
       ![c] = [tag |-> "ok", value |-> deferred[c].value, cause |-> <<>>]]
  /\ UNCHANGED <<svc, pendingRequests, nextId, toolName, requestId, deferred,
                 timer, lastLog, published, replies>>

\* "Cleanup successful request": Ref.update(map.delete(requestId)); return.
Cleanup(c) ==
  /\ pc[c] = "cleanup"
  /\ pendingRequests' = MapDelete(pendingRequests, requestId[c])
  /\ pc' = [pc EXCEPT ![c] = "done"]
  /\ outcome' = [outcome EXCEPT
       ![c] = [tag |-> "ok", value |-> deferred[c].value, cause |-> <<>>]]
  /\ UNCHANGED <<svc, nextId, toolName, requestId, deferred, timer, lastLog,
                 published, replies>>

-----------------------------------------------------------------------------
(* handleResponse *)

\* Deferred.fail / Deferred.succeed complete a deferred once; on a completed
\* deferred they change nothing.
DeferredFail(d, err, response) ==
  IF d.state = "pending"
    THEN [state |-> "failed", value |-> Undefined, error |-> err,
          by |-> response]
    ELSE d

DeferredSucceed(d, val, response) ==
  IF d.state = "pending"
    THEN [state |-> "succeeded", value |-> val, error |-> NoError,
          by |-> response]
    ELSE d

\* A lookup that ignores the key and answers with the oldest pending record.
MapGetOldest(map, id) ==
  IF DOMAIN map = {}
    THEN NoRequest
    ELSE map[CHOOSE k \in DOMAIN map : \A j \in DOMAIN map : k <= j]

\* A lookup that falls back to the oldest pending record for a missing key.
MapGetOrOldest(map, id) ==
  IF id \in DOMAIN map THEN map[id] ELSE MapGetOldest(map, id)

\* pending.get(response.requestId): the record, or undefined.
MapGet(map, id) == IF id \in DOMAIN map THEN map[id] ELSE NoRequest

\* A handler that waits while any call of the bridge is inside its publish.
handleResponseAfterPublishes(response) ==
  LET request == MapGet(pendingRequests, response.requestId)
      c == request.deferred
  IN
  /\ \A b \in Calls : pc[b] # "publishing"
  /\ IF request = NoRequest
       THEN /\ lastLog' = "unknown"
            /\ UNCHANGED deferred
       ELSE IF Truthy(response.error)
              THEN /\ deferred' = [deferred EXCEPT
                        ![c] = DeferredFail(@,
                                 RemoteError(svc, request.toolName,
                                             response.error),
                                 response)]
                   /\ lastLog' = "failed"
              ELSE /\ deferred' = [deferred EXCEPT
                        ![c] = DeferredSucceed(@, response.result, response)]
                   /\ lastLog' = "succeeded"
  /\ UNCHANGED <<svc, pendingRequests, nextId, pc, toolName, requestId,
                 timer, outcome, published>>

\* Ref.get(pendingRequests), pending.get(requestId); unknown id: warn and
\* return; response.error: Deferred.fail; else Deferred.succeed.  The Ref
\* is read in one step and nothing is held while it runs.
handleResponse(response) ==
  LET request == MapGet(pendingRequests, response.requestId)
      c == request.deferred
  IN
  /\ IF request = NoRequest
       THEN /\ lastLog' = "unknown"
            /\ UNCHANGED deferred
       ELSE IF Truthy(response.error)
              THEN /\ deferred' = [deferred EXCEPT
                        ![c] = DeferredFail(@,
                                 RemoteError(svc, request.toolName,
                                             response.error),
                                 response)]
                   /\ lastLog' = "failed"
              ELSE /\ deferred' = [deferred EXCEPT
                        ![c] = DeferredSucceed(@, response.result, response)]
                   /\ lastLog' = "succeeded"
  /\ UNCHANGED <<svc, pendingRequests, nextId, pc, toolName, requestId,
                 timer, outcome, published>>

-----------------------------------------------------------------------------
(* The response routes: POST /mcp-tool-events (ai-svc), POST /mcp-events   *)
(* (readme-mcp)                                                            *)

\* A route that forwards event.data whatever the type of the event.
ResponseRouteAnyType(event) ==
  IF CloudEventSchemaOk(event)
    THEN /\ handleResponse(event.data)
         /\ replies' = <<200>>
    ELSE /\ lastLog' = "none"
         /\ replies' = <<500>>
         /\ UNCHANGED <<svc, pendingRequests, nextId, pc, toolName,
                        requestId, deferred, timer, outcome, published>>

\* A route that forwards event.data without decoding the envelope.
ResponseRouteNoDecode(event) ==
  /\ IF event.type = ResponseType(svc)
       THEN handleResponse(event.data)
       ELSE /\ lastLog' = "none"
            /\ UNCHANGED <<svc, pendingRequests, nextId, pc, toolName,
                           requestId, deferred, timer, outcome, published>>
  /\ replies' = <<200>>

\* decodeUnknown(CloudEventSchema)(req.body); if the type is the response
\* type, handleResponse(data); res.status(200).  A decode failure goes to
\* catchAll: res.status(500).
ResponseRoute(event) ==
  IF CloudEventSchemaOk(event)
    THEN /\ IF event.type = ResponseType(svc)
              THEN handleResponse(event.data)
              ELSE /\ lastLog' = "none"
                   /\ UNCHANGED <<svc, pendingRequests, nextId, pc, toolName,
                                  requestId, deferred, timer, outcome,
                                  published>>
         /\ replies' = <<200>>
    ELSE /\ lastLog' = "none"
         /\ replies' = <<500>>
         /\ UNCHANGED <<svc, pendingRequests, nextId, pc, toolName,
                        requestId, deferred, timer, outcome, published>>

-----------------------------------------------------------------------------
-----------------------------------------------------------------------------
(* The tool executor: POST /mcp-tool-events of readme-mcp, routeToTool *)

\* The handler up to its first suspension.  A body that does not decode
\* goes to catchAll (500); an event of another type falls through the if
\* and gets no reply; validate-readme without content throws inside the
\* validator's generator (content.length), a defect that catchAll does not
\* catch; an unknown tool is Effect.fail, caught by catchAll (500);
\* suggest-improvements starts llmClient.sample.
ToolRequest(t, event) ==
  LET data == event.data
      ended(kind, replies_) ==
        /\ toolRequests' = [toolRequests EXCEPT
             ![t] = [pc |-> "done", kind |-> kind, tool |-> data.tool,
                     call |-> MaxCalls + 1, result |-> NoResult]]
        /\ toolReplies' = [toolReplies EXCEPT ![t] = replies_]
        /\ UNCHANGED bridgeVars
  IN
  /\ toolRequests[t].pc = "none"
  /\ \A u \in ToolRequestIds : u < t => toolRequests[u].pc # "none"
  /\ IF ~CloudEventSchemaOk(event)
       THEN ended("malformed", <<500>>)
       ELSE IF event.type # "mcp.tool.request"
         THEN ended("other", <<>>)
         ELSE IF data.tool = "validate-readme"
           THEN IF data.content = Undefined
                  THEN ended("defect", <<>>)
                  ELSE /\ toolRequests' = [toolRequests EXCEPT
                            ![t] = [pc |-> "publishing", kind |-> "request",
                                    tool |-> data.tool, call |-> MaxCalls + 1,
                                    result |-> ValidationResult]]
                       /\ UNCHANGED <<toolReplies, bridgeVars>>
           ELSE IF data.tool = "suggest-improvements"
             THEN \E c \in Calls :
                    /\ Register(c, "sample")
                    /\ toolRequests' = [toolRequests EXCEPT
                         ![t] = [pc |-> "sampling", kind |-> "request",
                                 tool |-> data.tool, call |-> c,
                                 result |-> NoResult]]
                    /\ UNCHANGED toolReplies
             ELSE ended("failed", <<500>>)
  /\ UNCHANGED <<toolResponses, aiStreamResponses, aiReplies>>

\* A handler that goes on to publish without waiting for the sample call.
ToolSampleReturnsEarly(t) ==
  /\ toolRequests[t].pc = "sampling"
  /\ toolRequests' = [toolRequests EXCEPT
       ![t].pc = "publishing", ![t].result = Suggestions("r1")]
  /\ UNCHANGED <<bridgeVars, toolReplies, toolResponses, aiStreamResponses,
                 aiReplies>>

\* llmClient.sample returned: with the content, the handler goes on to
\* publish {suggestions: response}; with a failure, catchAll replies 500.
ToolSampleReturns(t) ==
  LET c == toolRequests[t].call IN
  /\ toolRequests[t].pc = "sampling"
  /\ pc[c] = "done"
  /\ IF outcome[c].tag = "ok"
       THEN /\ toolRequests' = [toolRequests EXCEPT
                 ![t].pc = "publishing",
                 ![t].result = Suggestions(outcome[c].value)]
            /\ UNCHANGED toolReplies
       ELSE /\ toolRequests' = [toolRequests EXCEPT
                 ![t].pc = "done", ![t].kind = "failed"]
            /\ toolReplies' = [toolReplies EXCEPT ![t] = <<500>>]
  /\ UNCHANGED <<bridgeVars, toolResponses, aiStreamResponses, aiReplies>>

\* publishEvent(pubsubName, "mcp-tool-responses", cloudEvent) resolved:
\* the response {requestId, result} is out; res.status(200).
ToolPublishOk(t) ==
  /\ toolRequests[t].pc = "publishing"
  /\ toolResponses' = toolResponses \cup
       {[requestId |-> t, result |-> toolRequests[t].result,
         error |-> Undefined]}
  /\ toolRequests' = [toolRequests EXCEPT ![t].pc = "done"]
  /\ toolReplies' = [toolReplies EXCEPT ![t] = <<200>>]
  /\ UNCHANGED <<bridgeVars, aiStreamResponses, aiReplies>>

\* publishEvent rejected: the DaprError goes to catchAll, res.status(500).
ToolPublishFail(t) ==
  /\ toolRequests[t].pc = "publishing"
  /\ toolRequests' = [toolRequests EXCEPT
       ![t].pc = "done", ![t].kind = "failed"]
  /\ toolReplies' = [toolReplies EXCEPT ![t] = <<500>>]
  /\ UNCHANGED <<bridgeVars, toolResponses, aiStreamResponses, aiReplies>>

-----------------------------------------------------------------------------
(* The sampling branch of POST /ai-events of ai-svc *)

\* The sampling request of call c, delivered from ai-stream:
\* samplingService.sample, then publishEvent of the response with the same
\* requestId to ai-stream-responses, res.status(200).  A failure of the
\* LLM or of the publish goes to catchAll: res.status(500), nothing out.
\* The sidecar posts a request until the route has acknowledged it, which
\* the route does exactly when it has published the response.
AiEventsSampling(c, content, publishOk) ==
  /\ published[c] # <<>>
  /\ \A r \in aiStreamResponses : r.requestId # requestId[c]
  /\ IF content # Undefined /\ publishOk
       THEN /\ aiStreamResponses' = aiStreamResponses \cup
                 {[requestId |-> requestId[c], result |-> content,
                   error |-> Undefined]}
            /\ aiReplies' = <<200>>
       ELSE /\ aiReplies' = <<500>>
            /\ UNCHANGED aiStreamResponses
  /\ UNCHANGED <<bridgeVars, toolRequests, toolReplies, toolResponses>>

-----------------------------------------------------------------------------
\* The bridge with time left out: a sleeping timeout arm may fire at any
\* moment.  The channel posts well-formed events of the response type,
\* with any response in them.
Next ==
  \/ \E c \in Calls, label \in Labels(svc) :
       Register(c, label) /\ UNCHANGED nonBridgeVars
  \/ \E c \in Calls : PublishOk(c) /\ UNCHANGED nonBridgeVars
  \/ \E c \in Calls : PublishFail(c) /\ UNCHANGED nonBridgeVars
  \/ \E c \in Calls : TimeoutArm(c) /\ UNCHANGED nonBridgeVars
  \/ \E c \in Calls : AwaitSucceeded(c) /\ UNCHANGED nonBridgeVars
  \/ \E c \in Calls : RaceFailed(c) /\ UNCHANGED nonBridgeVars
  \/ \E c \in Calls : Cleanup(c) /\ UNCHANGED nonBridgeVars
  \/ \E response \in Responses :
       /\ ResponseRoute(CloudEvent(ResponseType(svc), response))
       /\ UNCHANGED nonBridgeVars

Spec == Init /\ [][Next]_vars

\* The runtime resumes every fiber that can run, every publish gets its
\* answer from the sidecar and every timer that is not interrupted fires.
\* Nothing obliges the channel to deliver a response or a caller to call.
FairSpec ==
  /\ Spec
  /\ \A c \in Calls :
       /\ WF_vars(/\ PublishOk(c) \/ PublishFail(c)
                  /\ UNCHANGED nonBridgeVars)
       /\ WF_vars(TimeoutArm(c) /\ UNCHANGED nonBridgeVars)
       /\ WF_vars(AwaitSucceeded(c) /\ UNCHANGED nonBridgeVars)
       /\ WF_vars(RaceFailed(c) /\ UNCHANGED nonBridgeVars)
       /\ WF_vars(Cleanup(c) /\ UNCHANGED nonBridgeVars)

-----------------------------------------------------------------------------
(* The bridge behind a channel that posts any request body *)

RouterNext ==
  \/ \E c \in Calls, label \in Labels(svc) :
       Register(c, label) /\ UNCHANGED nonBridgeVars
  \/ \E c \in Calls : PublishOk(c) /\ UNCHANGED nonBridgeVars
  \/ \E c \in Calls : PublishFail(c) /\ UNCHANGED nonBridgeVars
  \/ \E c \in Calls : TimeoutArm(c) /\ UNCHANGED nonBridgeVars
  \/ \E c \in Calls : AwaitSucceeded(c) /\ UNCHANGED nonBridgeVars
  \/ \E c \in Calls : RaceFailed(c) /\ UNCHANGED nonBridgeVars
  \/ \E c \in Calls : Cleanup(c) /\ UNCHANGED nonBridgeVars
  \/ \E event \in Events(svc) :
       ResponseRoute(event) /\ UNCHANGED nonBridgeVars

RouterSpec == Init /\ [][RouterNext]_vars

-----------------------------------------------------------------------------
(* The bridge on a clock *)

\* The clock advances in steps of half a timeout.
TickMs == TimeoutMs(svc) \div 2

\* Events the channel posts while time is measured: one success and one
\* error response for every correlation id.
TimedEvents(b) ==
  {CloudEvent(ResponseType(b), r) :
     r \in {x \in Responses : x.result = "r1" \/ x.error = "boom"}}

Min(a, b) == IF a <= b THEN a ELSE b

\* Time passes for every call in flight and every sleeping timeout arm.
\* The counters stop at the timeout: nothing reads them beyond it.
Tick ==
  /\ \E c \in Calls : pc[c] \notin {"idle", "done"}
  /\ elapsed' = [c \in Calls |->
       IF pc[c] \notin {"idle", "done"}
         THEN Min(elapsed[c] + TickMs, TimeoutMs(svc)) ELSE elapsed[c]]
  /\ slept' = [c \in Calls |->
       IF timer[c] = "sleeping"
         THEN Min(slept[c] + TickMs, TimeoutMs(svc)) ELSE slept[c]]
  /\ UNCHANGED <<bridgeVars, execVars, agentVars>>

\* A sleep that returns at once.
SleepReturnsAtOnce(c) == slept[c] >= 0

\* Effect.sleep(timeoutMs) returns once timeoutMs have passed.
SleepReturns(c) == slept[c] >= TimeoutMs(svc)

TimedNext ==
  \/ \E c \in Calls, label \in Labels(svc) :
       Register(c, label) /\ UNCHANGED nonBridgeVars
  \/ \E c \in Calls : PublishOk(c) /\ UNCHANGED nonBridgeVars
  \/ \E c \in Calls : PublishFail(c) /\ UNCHANGED nonBridgeVars
  \/ \E c \in Calls :
       SleepReturns(c) /\ TimeoutArm(c) /\ UNCHANGED nonBridgeVars
  \/ \E c \in Calls : AwaitSucceeded(c) /\ UNCHANGED nonBridgeVars
  \/ \E c \in Calls : RaceFailed(c) /\ UNCHANGED nonBridgeVars
  \/ \E c \in Calls : Cleanup(c) /\ UNCHANGED nonBridgeVars
  \/ \E event \in TimedEvents(svc) :
       ResponseRoute(event) /\ UNCHANGED nonBridgeVars
  \/ Tick

TimedSpec == Init /\ [][TimedNext]_vars

-----------------------------------------------------------------------------
(* readme-mcp and the sampling handler of ai-svc together *)

\* readme-mcp runs the LlmClient bridge.
ExecInit == Init /\ svc = "LlmClient"

\* The channel carries what the services publish: sample is called by the
\* tool executor only, and the response route receives the responses on
\* ai-stream-responses.  None of them carries an error, so Deferred.await
\* never fails here and the race never fails on both arms.
ExecNext ==
  \/ \E t \in ToolRequestIds : \E event \in ToolEvents(t) :
       ToolRequest(t, event) /\ UNCHANGED nonExecVars
  \/ \E t \in ToolRequestIds : ToolSampleReturns(t) /\ UNCHANGED nonExecVars
  \/ \E t \in ToolRequestIds : ToolPublishOk(t) /\ UNCHANGED nonExecVars
  \/ \E t \in ToolRequestIds : ToolPublishFail(t) /\ UNCHANGED nonExecVars
  \/ \E c \in Calls, content \in LlmResults, publishOk \in BOOLEAN :
       AiEventsSampling(c, content, publishOk) /\ UNCHANGED nonExecVars
  \/ \E c \in Calls : PublishOk(c) /\ UNCHANGED nonBridgeVars
  \/ \E c \in Calls : PublishFail(c) /\ UNCHANGED nonBridgeVars
  \/ \E c \in Calls : TimeoutArm(c) /\ UNCHANGED nonBridgeVars
  \/ \E c \in Calls : AwaitSucceeded(c) /\ UNCHANGED nonBridgeVars
  \/ \E c \in Calls : Cleanup(c) /\ UNCHANGED nonBridgeVars
  \/ \E r \in aiStreamResponses :
       /\ ResponseRoute(CloudEvent("mcp.sampling.response", r))
       /\ UNCHANGED nonBridgeVars

ExecSpec == ExecInit /\ [][ExecNext]_vars

-----------------------------------------------------------------------------
(* The agent service of ai-svc: registry, invokeAgent and chat histories *)

\* listAgents: Array.from(map.keys())
listAgents == DOMAIN registry

\* registerAgent(config) of one of the defaultAgents, run concurrently by
\* Effect.all: createAgentGraph, then one atomic Ref.update that copies the
\* map and sets the id.  A throw of createAgentGraph fails the startup.
registerAgent(agentId, created) ==
  /\ startup.pc = "defaults"
  /\ agentId \in startup.todo
  /\ IF created
       THEN /\ registry' = MapSet(registry, agentId, "graph")
            /\ startup' = [startup EXCEPT !.todo = @ \ {agentId}]
       ELSE /\ startup' = [startup EXCEPT !.pc = "failed"]
            /\ UNCHANGED registry
  /\ UNCHANGED <<stateStore, invocations>>

\* A registration that sets the id in a new, empty map.
registerCustomAgentInNewMap(agentId) ==
  /\ startup.pc = "defaults"
  /\ startup.todo = {}
  /\ registry' = MapSet([a \in {} |-> ""], agentId, "readme-graph")
  /\ startup' = [startup EXCEPT !.pc = "done"]
  /\ UNCHANGED <<stateStore, invocations>>

\* registerCustomAgent("readme-agent", readmeAgent), after Effect.all has
\* returned; registerDefaultAgents ends and main goes on to start the server.
registerCustomAgent(agentId) ==
  /\ startup.pc = "defaults"
  /\ startup.todo = {}
  /\ registry' = MapSet(registry, agentId, "readme-graph")
  /\ startup' = [startup EXCEPT !.pc = "done"]
  /\ UNCHANGED <<stateStore, invocations>>

\* An invokeAgent that loads the chat history before it looks the agent up.
invokeAgentLoadsFirst(i, agentId, sessionId, getOk) ==
  /\ startup.pc = "done"
  /\ invocations[i].pc = "none"
  /\ \A j \in Invocations : j < i => invocations[j].pc # "none"
  /\ invocations' = [invocations EXCEPT
       ![i] = [NoInvocation EXCEPT
                 !.pc = IF agentId \notin DOMAIN registry
                          THEN "done" ELSE "invoking",
                 !.error = IF agentId \notin DOMAIN registry
                             THEN "AgentNotFoundError" ELSE "none",
                 !.agentId = agentId,
                 !.sessionId = sessionId,
                 !.reads = IF sessionId # Undefined THEN 1 ELSE 0,
                 !.chatHistory =
                    IF sessionId # Undefined /\ getOk
                      THEN StateGet(stateStore,
                                    ChatStateKey(sessionId)).messages
                      ELSE <<>>]]
  /\ UNCHANGED <<registry, startup, stateStore>>

\* invokeAgent(agentId, input, sessionId) up to agent.invoke: the registry
\* lookup (AgentNotFoundError for an unknown id) and, with a sessionId, the
\* first getChatHistory, whose failure counts as no history.  The server
\* takes requests only after the startup registration.
invokeAgent(i, agentId, sessionId, getOk) ==
  /\ startup.pc = "done"
  /\ invocations[i].pc = "none"
  /\ \A j \in Invocations : j < i => invocations[j].pc # "none"
  /\ IF agentId \notin DOMAIN registry
       THEN invocations' = [invocations EXCEPT
              ![i] = [NoInvocation EXCEPT
                        !.pc = "done", !.agentId = agentId,
                        !.sessionId = sessionId,
                        !.error = "AgentNotFoundError"]]
       ELSE invocations' = [invocations EXCEPT
              ![i] = [NoInvocation EXCEPT
                        !.pc = "invoking", !.agentId = agentId,
                        !.sessionId = sessionId,
                        !.reads = IF sessionId # Undefined THEN 1 ELSE 0,
                        !.chatHistory =
                           IF sessionId # Undefined /\ getOk
                             THEN StateGet(stateStore,
                                           ChatStateKey(sessionId)).messages
                             ELSE <<>>]]
  /\ UNCHANGED <<registry, startup, stateStore>>

\* agent.invoke settled: a rejection is the AgentInvocationError and ends
\* the call; with the result and a sessionId the call goes on to read the
\* stored state again, without a sessionId it returns.
agentInvokeSettled(i, resolved) ==
  /\ invocations[i].pc = "invoking"
  /\ invocations' = [invocations EXCEPT
       ![i] = IF ~resolved
                THEN [@ EXCEPT !.pc = "done",
                               !.error = "AgentInvocationError"]
                ELSE [@ EXCEPT !.output = Output(i),
                               !.pc =
                                  IF invocations[i].sessionId = Undefined
                                    THEN "done" ELSE "reading"]]
  /\ UNCHANGED <<registry, startup, stateStore>>

\* The second getChatHistory(sessionId) returned; a failure counts as no
\* stored state.
getExistingState(i, getOk) ==
  /\ invocations[i].pc = "reading"
  /\ invocations' = [invocations EXCEPT
       ![i].pc = "saving",
       ![i].reads = @ + 1,
       ![i].existingState =
          IF getOk
            THEN StateGet(stateStore, ChatStateKey(invocations[i].sessionId))
            ELSE NoState]
  /\ UNCHANGED <<registry, startup, stateStore>>

\* updatedState: the state read, with the two new messages appended and
\* the agentId replaced, or a new state for the sessionId.
updatedState(i) ==
  LET inv == invocations[i]
      userChatMessage == ChatMessage("user", UserContent(i))
      assistantChatMessage == ChatMessage("assistant", inv.output)
  IN IF inv.existingState # NoState
       THEN [inv.existingState EXCEPT
               !.agentId = inv.agentId,
               !.messages = @ \o <<userChatMessage, assistantChatMessage>>,
               !.updated_at = Now(i)]
       ELSE [sessionId |-> inv.sessionId, agentId |-> inv.agentId,
             messages |-> <<userChatMessage, assistantChatMessage>>,
             created_at |-> Now(i), updated_at |-> Now(i)]

\* A save whose failure fails the call.
saveChatHistoryOrFail(i, saved) ==
  /\ invocations[i].pc = "saving"
  /\ stateStore' =
       IF saved
         THEN StateSave(stateStore, ChatStateKey(invocations[i].sessionId),
                        updatedState(i))
         ELSE stateStore
  /\ invocations' = [invocations EXCEPT
       ![i].pc = "done", ![i].saved = saved,
       ![i].error = IF saved THEN "none" ELSE "DaprError"]
  /\ UNCHANGED <<registry, startup>>

\* saveChatHistory(sessionId, updatedState) settled; a failure is logged
\* and the call returns its response all the same.
saveChatHistory(i, saved) ==
  /\ invocations[i].pc = "saving"
  /\ stateStore' =
       IF saved
         THEN StateSave(stateStore, ChatStateKey(invocations[i].sessionId),
                        updatedState(i))
         ELSE stateStore
  /\ invocations' = [invocations EXCEPT ![i].pc = "done", ![i].saved = saved]
  /\ UNCHANGED <<registry, startup>>

\* ai-svc runs the McpBridge.
AgentInit == Init /\ svc = "McpBridge"

AgentNext ==
  \/ \E agentId \in DefaultAgents, created \in BOOLEAN :
       /\ registerAgent(agentId, created)
       /\ UNCHANGED <<bridgeVars, clockVars, execVars, graphs, aiEvents>>
  \/ /\ registerCustomAgent("readme-agent")
     /\ UNCHANGED <<bridgeVars, clockVars, execVars, graphs, aiEvents>>
  \/ \E i \in Invocations, agentId \in RequestedAgents,
        sessionId \in SessionIds \cup {Undefined}, getOk \in BOOLEAN :
       /\ invokeAgent(i, agentId, sessionId, getOk)
       /\ UNCHANGED <<bridgeVars, clockVars, execVars, graphs, aiEvents>>
  \/ \E i \in Invocations, resolved \in BOOLEAN :
       /\ agentInvokeSettled(i, resolved)
       /\ UNCHANGED <<bridgeVars, clockVars, execVars, graphs, aiEvents>>
  \/ \E i \in Invocations, getOk \in BOOLEAN :
       /\ getExistingState(i, getOk)
       /\ UNCHANGED <<bridgeVars, clockVars, execVars, graphs, aiEvents>>
  \/ \E i \in Invocations, saved \in BOOLEAN :
       /\ saveChatHistory(i, saved)
       /\ UNCHANGED <<bridgeVars, clockVars, execVars, graphs, aiEvents>>

AgentSpec == AgentInit /\ [][AgentNext]_vars

-----------------------------------------------------------------------------
(* The README agent graph: START -> extract -> validate -> respond -> END *)

\* extractReadmeNode: readmeContent is the last message's content.  Runs
\* start in index order.
extractReadmeNode(g, content) ==
  /\ graphs[g].node = "none"
  /\ \A h \in GraphRuns : h < g => graphs[h].node # "none"
  /\ graphs' = [graphs EXCEPT ![g].node = "validate",
                              ![g].readmeContent = content]

\* validateReadmeNode up to its await: without content it returns the error
\* result at once, otherwise it starts callTool("validate-readme").
validateReadmeNode(g) ==
  /\ graphs[g].node = "validate"
  /\ IF graphs[g].readmeContent = ""
     THEN /\ graphs' = [graphs EXCEPT
               ![g].node = "respond",
               ![g].validationResult =
                  [error |-> "No README content provided",
                   result |-> Undefined]]
          /\ UNCHANGED bridgeVars
     ELSE \E c \in Calls :
            /\ Register(c, "validate-readme")
            /\ graphs' = [graphs EXCEPT
                 ![g].node = "validating",
                 ![g].call = c,
                 ![g].toolCalls = graphs[g].toolCalls + 1]

\* validateReadmeNode after the await: the promise of Effect.runPromise has
\* settled; a rejection is caught and becomes the error result.
validateReadmeSettled(g) ==
  /\ graphs[g].node = "validating"
  /\ pc[graphs[g].call] = "done"
  /\ graphs' = [graphs EXCEPT
       ![g].node = "respond",
       ![g].validationResult =
          IF outcome[graphs[g].call].tag = "ok"
          THEN [error |-> Undefined, result |-> outcome[graphs[g].call].value]
          ELSE [error |-> "Validation failed", result |-> Undefined]]

\* generateResponseNode: model.invoke resolves, or rejects and the run
\* rejects with it.
generateResponseNode(g, resolved) ==
  /\ graphs[g].node = "respond"
  /\ graphs' = [graphs EXCEPT ![g].node = IF resolved THEN "done" ELSE "failed"]

graphFrame ==
  <<clockVars, execVars, registry, startup, stateStore, invocations, aiEvents>>

ReadmeInit == Init /\ svc = "McpBridge"

ReadmeNext ==
  \/ \E g \in GraphRuns, content \in ReadmeContents :
       extractReadmeNode(g, content) /\ UNCHANGED <<bridgeVars, graphFrame>>
  \/ \E g \in GraphRuns : validateReadmeNode(g) /\ UNCHANGED graphFrame
  \/ \E g \in GraphRuns :
       validateReadmeSettled(g) /\ UNCHANGED <<bridgeVars, graphFrame>>
  \/ \E g \in GraphRuns, resolved \in BOOLEAN :
       generateResponseNode(g, resolved) /\ UNCHANGED <<bridgeVars, graphFrame>>
  \/ \E c \in Calls : PublishOk(c) /\ UNCHANGED nonBridgeVars
  \/ \E c \in Calls : PublishFail(c) /\ UNCHANGED nonBridgeVars
  \/ \E c \in Calls : TimeoutArm(c) /\ UNCHANGED nonBridgeVars
  \/ \E c \in Calls : AwaitSucceeded(c) /\ UNCHANGED nonBridgeVars
  \/ \E c \in Calls : RaceFailed(c) /\ UNCHANGED nonBridgeVars
  \/ \E c \in Calls : Cleanup(c) /\ UNCHANGED nonBridgeVars
  \/ \E event \in TimedEvents(svc) :
       ResponseRoute(event) /\ UNCHANGED nonBridgeVars

\* The runtime resumes every fiber and every graph node that can run, every
\* publish gets its answer and every timer that is not interrupted fires.
\* Nothing obliges a request to arrive or the channel to deliver a response.
ReadmeSpec ==
  /\ ReadmeInit
  /\ [][ReadmeNext]_vars
  /\ \A c \in Calls :
       /\ WF_vars(/\ PublishOk(c) \/ PublishFail(c)
                  /\ UNCHANGED nonBridgeVars)
       /\ WF_vars(TimeoutArm(c) /\ UNCHANGED nonBridgeVars)
       /\ WF_vars(AwaitSucceeded(c) /\ UNCHANGED nonBridgeVars)
       /\ WF_vars(RaceFailed(c) /\ UNCHANGED nonBridgeVars)
       /\ WF_vars(Cleanup(c) /\ UNCHANGED nonBridgeVars)
  /\ \A g \in GraphRuns :
       /\ WF_vars(validateReadmeNode(g) /\ UNCHANGED graphFrame)
       /\ WF_vars(validateReadmeSettled(g) /\ UNCHANGED <<bridgeVars, graphFrame>>)
       /\ WF_vars(/\ \E resolved \in BOOLEAN : generateResponseNode(g, resolved)
                  /\ UNCHANGED <<bridgeVars, graphFrame>>)

-----------------------------------------------------------------------------
(* POST /ai-events of ai-svc *)

\* Reading a property of decoded.data throws a TypeError when data is null:
\* a defect of the generator, which Effect.catchAll does not handle.
ReadThrows(data) == data.isNull

\* Schema.decodeUnknown(AgentRequestDataSchema)(decoded.data) succeeds.
IsAgentRequestData(data) == ~data.isNull /\ data.agentId # Undefined

\* The handler up to its reply, or up to the await of invokeAgent in the
\* agent branch.  content is the LLM's answer (Undefined: SamplingError),
\* publishOk the sidecar's answer to the publish, getOk that of the state
\* store to invokeAgent's first read.
AiEventsRoute(e, event, content, publishOk, getOk) ==
  /\ startup.pc = "done"
  /\ aiEvents[e].pc = "none"
  /\ \A d \in EventIds : d < e => aiEvents[d].pc # "none"
  /\ IF event.type = "agent.request"
       THEN IF IsAgentRequestData(event.data)
              THEN /\ \E i \in Invocations :
                        /\ invokeAgent(i, event.data.agentId,
                                       event.data.sessionId, getOk)
                        /\ aiEvents' = [aiEvents EXCEPT
                             ![e] = [NoAiEvent EXCEPT
                                       !.pc = "awaiting", !.event = event,
                                       !.agentCalls = 1, !.invocation = i]]
                   /\ UNCHANGED <<aiStreamResponses, aiReplies>>
              ELSE /\ aiEvents' = [aiEvents EXCEPT
                        ![e] = [NoAiEvent EXCEPT
                                  !.pc = "done", !.event = event,
                                  !.agentCalls = 1, !.reply = <<500>>]]
                   /\ aiReplies' = <<500>>
                   /\ UNCHANGED <<aiStreamResponses, registry, startup,
                                  stateStore, invocations>>
       ELSE /\ UNCHANGED <<registry, startup, stateStore, invocations>>
            /\ IF ReadThrows(event.data)
                 THEN /\ aiEvents' = [aiEvents EXCEPT
                           ![e] = [NoAiEvent EXCEPT
                                     !.pc = "died", !.event = event]]
                      /\ UNCHANGED <<aiStreamResponses, aiReplies>>
                 ELSE IF \/ event.type = "sampling.request"
                         \/ Truthy(event.data.requestId)
                   THEN IF content # Undefined /\ publishOk
                          THEN /\ aiStreamResponses' = aiStreamResponses \cup
                                    {[requestId |-> event.data.requestId,
                                      result |-> content, error |-> Undefined]}
                               /\ aiReplies' = <<200>>
                               /\ aiEvents' = [aiEvents EXCEPT
                                    ![e] = [NoAiEvent EXCEPT
                                              !.pc = "done", !.event = event,
                                              !.samplingCalls = 1,
                                              !.publishes = 1,
                                              !.reply = <<200>>]]
                          ELSE /\ aiReplies' = <<500>>
                               /\ aiEvents' = [aiEvents EXCEPT
                                    ![e] = [NoAiEvent EXCEPT
                                              !.pc = "done", !.event = event,
                                              !.samplingCalls = 1,
                                              !.publishes =
                                                 IF content # Undefined
                                                   THEN 1 ELSE 0,
                                              !.reply = <<500>>]]
                               /\ UNCHANGED aiStreamResponses
                   ELSE /\ aiReplies' = <<400>>
                        /\ aiEvents' = [aiEvents EXCEPT
                             ![e] = [NoAiEvent EXCEPT
                                       !.pc = "done", !.event = event,
                                       !.reply = <<400>>]]
                        /\ UNCHANGED aiStreamResponses
  /\ UNCHANGED <<toolRequests, toolReplies, toolResponses, graphs>>

\* The agent branch after handleMessage has settled: res.status(200) with
\* the result, or catchAll's res.status(500).
AiEventsAgentReply(e) ==
  /\ aiEvents[e].pc = "awaiting"
  /\ invocations[aiEvents[e].invocation].pc = "done"
  /\ LET status == IF invocations[aiEvents[e].invocation].error = "none"
                     THEN 200 ELSE 500
     IN /\ aiEvents' = [aiEvents EXCEPT ![e].pc = "done",
                                        ![e].reply = <<status>>]
        /\ aiReplies' = <<status>>
  /\ UNCHANGED <<toolRequests, toolReplies, toolResponses, aiStreamResponses,
                 registry, startup, stateStore, invocations, graphs>>

AiEventsInit == Init /\ svc = "McpBridge"

AiEventsNext ==
  \/ \E agentId \in DefaultAgents, created \in BOOLEAN :
       /\ registerAgent(agentId, created)
       /\ UNCHANGED <<bridgeVars, clockVars, execVars, graphs, aiEvents>>
  \/ /\ registerCustomAgent("readme-agent")
     /\ UNCHANGED <<bridgeVars, clockVars, execVars, graphs, aiEvents>>
  \/ \E e \in EventIds, event \in AiEvents, content \in {"r1", Undefined},
        publishOk \in BOOLEAN, getOk \in BOOLEAN :
       /\ AiEventsRoute(e, event, content, publishOk, getOk)
       /\ UNCHANGED <<bridgeVars, clockVars>>
  \/ \E e \in EventIds :
       AiEventsAgentReply(e) /\ UNCHANGED <<bridgeVars, clockVars>>
  \/ \E i \in Invocations, resolved \in BOOLEAN :
       /\ agentInvokeSettled(i, resolved)
       /\ UNCHANGED <<bridgeVars, clockVars, execVars, graphs, aiEvents>>
  \/ \E i \in Invocations, getOk \in BOOLEAN :
       /\ getExistingState(i, getOk)
       /\ UNCHANGED <<bridgeVars, clockVars, execVars, graphs, aiEvents>>
  \/ \E i \in Invocations, saved \in BOOLEAN :
       /\ saveChatHistory(i, saved)
       /\ UNCHANGED <<bridgeVars, clockVars, execVars, graphs, aiEvents>>

AiEventsSpec == AiEventsInit /\ [][AiEventsNext]_vars

TypeOK ==
  /\ svc \in Bridges
  /\ nextId \in 1..(MaxCalls + 1)
  /\ DOMAIN pendingRequests \subseteq Calls
  /\ \A c \in Calls :
       /\ pc[c] \in {"idle", "publishing", "racing", "cleanup", "done"}
       /\ timer[c] \in {"none", "sleeping", "failed", "interrupted"}
       /\ deferred[c].state \in {"pending", "succeeded", "failed"}
       /\ outcome[c].tag \in {"none", "ok", "fail"}
       /\ Len(published[c]) \in 0..2
       /\ elapsed[c] \in 0..TimeoutMs(svc)
       /\ slept[c] \in 0..elapsed[c]
  /\ \A t \in ToolRequestIds :
       /\ toolRequests[t].pc \in {"none", "sampling", "publishing", "done"}
       /\ toolReplies[t] \in {<<>>, <<200>>, <<500>>}
  /\ \A r \in toolResponses : r.requestId \in ToolRequestIds
  /\ IF svc = "LlmClient"
       THEN aiStreamResponses \subseteq Responses
       ELSE \A r \in aiStreamResponses :
              /\ r.requestId \in {d.requestId : d \in AiEventData}
              /\ r.result \in Payloads
              /\ r.error = Undefined
  /\ aiReplies \in {<<>>, <<200>>, <<400>>, <<500>>}
  /\ lastLog \in {"none", "unknown", "failed", "succeeded"}
  /\ replies \in {<<>>, <<200>>, <<500>>}
  /\ DOMAIN registry \subseteq DefaultAgents \cup {"readme-agent"}
  /\ startup.pc \in {"defaults", "done", "failed"}
  /\ startup.todo \subseteq DefaultAgents
  /\ DOMAIN stateStore \subseteq {ChatStateKey(s) : s \in SessionIds}
  /\ \A i \in Invocations :
       /\ invocations[i].pc \in
            {"none", "invoking", "reading", "saving", "done"}
       /\ invocations[i].error \in
            {"none", "AgentNotFoundError", "AgentInvocationError"}
  /\ \A g \in GraphRuns :
       /\ graphs[g].node \in
            {"none", "validate", "validating", "respond", "done", "failed"}
       /\ graphs[g].readmeContent \in ReadmeContents \cup {Undefined}
       /\ graphs[g].toolCalls \in 0..1
  /\ \A e \in EventIds :
       /\ aiEvents[e].pc \in {"none", "awaiting", "done", "died"}
       /\ aiEvents[e].reply \in {<<>>, <<200>>, <<400>>, <<500>>}
       /\ aiEvents[e].pc # "none" => aiEvents[e].event \in AiEvents
       /\ aiEvents[e].agentCalls + aiEvents[e].samplingCalls \in 0..1
       /\ aiEvents[e].publishes \in 0..1

-----------------------------------------------------------------------------
(* Vocabulary of the properties *)

\* The registry holds a record under the call's correlation id.
InRegistry(c) == pc[c] # "idle" /\ requestId[c] \in DOMAIN pendingRequests

\* The call's request envelope went out.
Published(c) ==
  \/ pc[c] \in {"racing", "cleanup"}
  \/ pc[c] = "done" /\ outcome[c].cause # <<DaprError>>

\* The call has returned to its caller.
Completed(c) == pc[c] = "done"

\* The failure of the call holds an error with one of these tags.
FailedWith(c, tags) ==
  /\ outcome[c].tag = "fail"
  /\ \E i \in 1..Len(outcome[c].cause) : outcome[c].cause[i].tag \in tags

RemoteTags == {"McpToolError", "LlmClientError"}

TimeoutTags == {"McpToolTimeoutError", "TimeoutError"}

\* The timeout error the call's timeout arm builds.
OwnTimeoutError(c) ==
  TimeoutErrorOf(svc, toolName[c], requestId[c], TimeoutMs(svc))

-----------------------------------------------------------------------------
(* Properties *)

\* C1: for every correlation id at most one of {delivery, timeout}
\* determines the call's outcome; the event that loses the race changes
\* nothing and raises no error.  Stated on the outcome: no call ends with
\* an outcome that carries both the remote error of a delivered response
\* and the timeout error.
C1_OneEventDecides ==
  \A c \in Calls : ~(FailedWith(c, RemoteTags) /\ FailedWith(c, TimeoutTags))

\* C2: every call that was issued eventually completes, with a result or a
\* typed failure, whatever the channel does.
C2_EveryCallCompletes ==
  \A c \in Calls : (pc[c] # "idle") ~> Completed(c)

\* C3: when the timeout elapses and no response for the call's id has been
\* delivered, the call fails with the timeout error that carries the
\* operation name, the correlation id and the configured timeout, and its
\* record is gone from the registry.
C3_TimeoutFailsCall ==
  \A c \in Calls :
    (timer[c] = "failed" /\ deferred[c].state = "pending")
      ~> (/\ Completed(c)
          /\ outcome[c].tag = "fail"
          /\ outcome[c].cause = <<OwnTimeoutError(c)>>
          /\ ~InRegistry(c))

\* C4: a published call whose waiter was resolved by a response with the
\* error field set completes as a failure that holds the remote error
\* wrapping that error string, and its record is gone from the registry.
C4_ErrorDeliveryFailsCall ==
  \A c \in Calls :
    (Completed(c) /\ Published(c) /\ deferred[c].by.error # Undefined)
      => (/\ outcome[c].tag = "fail"
          /\ \E i \in 1..Len(outcome[c].cause) :
               outcome[c].cause[i] =
                 RemoteError(svc, toolName[c], deferred[c].by.error)
          /\ ~InRegistry(c))

\* C5: a call whose publish failed has failed with the DaprError, and no
\* record for its correlation id remains in the registry.
C5_PublishFailureLeavesNoRecord ==
  \A c \in Calls :
    (Completed(c) /\ outcome[c].cause = <<DaprError>>) => ~InRegistry(c)

\* C6: a call that completed by successful delivery, error delivery or
\* timeout has no record in the registry, and whenever no call is in
\* flight the registry is empty.
C6_NoLeak ==
  /\ \A c \in Calls : (Completed(c) /\ Published(c)) => ~InRegistry(c)
  /\ (\A c \in Calls : pc[c] \in {"idle", "done"})
       => DOMAIN pendingRequests = {}

\* C7: handleResponse removes the record before it resolves the waiter: in
\* the step that completes a call's deferred, the call's correlation id is
\* already absent from the registry.
C7_RemoveThenResolve ==
  [][\A c \in Calls :
       (deferred[c].state = "pending" /\ deferred'[c].state # "pending")
         => requestId[c] \notin DOMAIN pendingRequests']_vars

\* C8: the record is registered before the request is published, so from
\* the publish on a response finds the record of every call that has not
\* completed: a published call that has not returned and whose waiter is
\* still unresolved has its record in the registry.
C8_RecordPresentUntilCompleted ==
  \A c \in Calls :
    (Published(c) /\ ~Completed(c) /\ deferred[c].state = "pending")
      => InRegistry(c)

\* C9: handleResponse for a correlation id without a pending record takes
\* the "unknown request" branch and returns: the registry, every deferred
\* and every call are left as they were.
C9_UnknownIdIsNoOp ==
  [][(\E response \in Responses :
        /\ response.requestId \notin DOMAIN pendingRequests
        /\ handleResponse(response))
       => (/\ lastLog' = "unknown"
           /\ UNCHANGED <<pendingRequests, deferred, pc, timer,
                          outcome>>)]_vars

\* C9 happens: an unmatched response was handled while a call was waiting.
C9_Witness ==
  /\ lastLog = "unknown"
  /\ \E c \in Calls :
       pc[c] = "racing" /\ deferred[c].state = "pending" /\ InRegistry(c)

\* C10: with any number of concurrent calls and any delivery order, a call
\* completes only with the content of a response that carried the call's
\* own correlation id: its result is that response's payload, the remote
\* error in its failure wraps that response's error string.
C10_NoCrossResolution ==
  \A c \in Calls :
    /\ outcome[c].tag = "ok"
         => (/\ deferred[c].by.requestId = requestId[c]
             /\ outcome[c].value = deferred[c].by.result)
    /\ FailedWith(c, RemoteTags)
         => (/\ deferred[c].by.requestId = requestId[c]
             /\ outcome[c].cause[1] =
                  RemoteError(svc, toolName[c], deferred[c].by.error))
    /\ deferred[c].state # "pending"
         => deferred[c].by.requestId = requestId[c]

\* C10 happens: a later call has returned its result while an earlier call
\* is still waiting for its response (responses out of call order).
C10_Witness ==
  \E c, d \in Calls :
       /\ c < d
       /\ outcome[d].tag = "ok"
       /\ pc[c] = "racing" /\ deferred[c].state = "pending"

\* C11: a handleResponse for the correlation id of a call whose timeout
\* fired before any response came is harmless and late: it takes the
\* "unknown request" branch, resolves nothing, changes no outcome, and the
\* caller already holds the timeout error.
C11_LateDeliveryAfterTimeout ==
  [][\A c \in Calls :
       (/\ timer[c] = "failed"
        /\ deferred[c].state = "pending"
        /\ \E response \in Responses :
             /\ response.requestId = requestId[c]
             /\ handleResponse(response))
         => (/\ lastLog' = "unknown"
             /\ UNCHANGED <<pendingRequests, deferred, outcome>>
             /\ outcome[c].tag = "fail"
             /\ outcome[c].cause = <<OwnTimeoutError(c)>>)]_vars

\* C12: a call whose waiter was resolved by a success response before the
\* timeout fired returns exactly the payload of that response, a response
\* that carried the call's own correlation id, and the registry does not
\* hold the id afterwards.
C12_SuccessDeliveryReturnsPayload ==
  \A c \in Calls :
    (Completed(c) /\ deferred[c].state = "succeeded"
       /\ timer[c] = "interrupted")
      => (/\ outcome[c] = [tag |-> "ok", value |-> deferred[c].by.result,
                           cause |-> <<>>]
          /\ deferred[c].by.requestId = requestId[c]
          /\ ~InRegistry(c))

\* C12 happens: a call returned the payload of a response delivered while
\* its timeout arm was still asleep.
C12_Witness ==
  \E c \in Calls :
    /\ Completed(c)
    /\ timer[c] = "interrupted"
    /\ deferred[c].by.result \in Payloads
    /\ outcome[c].value = deferred[c].by.result

\* C13: the failure a caller sees is of one kind only.  A call that fails
\* with the remote error fails with it alone and without its timeout having
\* fired; a call that fails with the timeout error fails with it alone and
\* no response had resolved its waiter.
C13_FailureKindsNotConflated ==
  \A c \in Calls :
    /\ FailedWith(c, RemoteTags)
         => (/\ outcome[c].cause =
                  <<RemoteError(svc, toolName[c], deferred[c].by.error)>>
             /\ timer[c] # "failed")
    /\ FailedWith(c, TimeoutTags)
         => (/\ outcome[c].cause = <<OwnTimeoutError(c)>>
             /\ deferred[c].state = "pending")

\* C14: every call publishes its request envelope once, to the request
\* topic of its bridge, and never again: no call has more than one envelope
\* out, and a call that went past the publish (it waits, returned a result,
\* or failed with the remote or the timeout error) has exactly one.
C14_OnePublishPerCall ==
  \A c \in Calls :
    /\ Len(published[c]) <= 1
    /\ Published(c) => published[c] = <<RequestTopic(svc)>>
    /\ (outcome[c].tag = "ok"
          \/ FailedWith(c, RemoteTags \cup TimeoutTags))
         => Len(published[c]) = 1

\* C14 happens: one call returned a result and another failed after its
\* timeout, each with one envelope published.
C14_Witness ==
  \E c, d \in Calls :
    /\ outcome[c].tag = "ok" /\ Len(published[c]) = 1
    /\ FailedWith(d, TimeoutTags) /\ Len(published[d]) = 1

\* C15: the response route answers every message it receives exactly once
\* and with a success acknowledgement (HTTP 200), matched or not, forwarded
\* or discarded, so that the channel never redelivers.
C15_EveryMessageAcknowledged ==
  replies = <<>> \/ replies = <<200>>

\* C16: a message that fails the CloudEvent schema is dropped by the
\* response route: handleResponse is not called for it, the registry, the
\* deferreds and the calls stay as they were, and the route goes on taking
\* messages.
C16_MalformedIsDropped ==
  [][(\E r \in ProbeResponses :
        ResponseRoute(WithoutSpecversion(CloudEvent(ResponseType(svc), r))))
       => (/\ lastLog' = "none"
           /\ UNCHANGED <<pendingRequests, deferred, pc, timer, outcome,
                          published, nextId>>
           /\ (ENABLED (\E r \in ProbeResponses :
                          ResponseRoute(CloudEvent(ResponseType(svc), r))))')]_vars

\* C16 happens: a malformed message carrying the correlation id of a
\* waiting call was refused, and the call still waits with its record.
C16_Witness ==
  /\ replies = <<500>>
  /\ lastLog = "none"
  /\ \E c \in Calls :
       /\ pc[c] = "racing"
       /\ deferred[c].state = "pending"
       /\ InRegistry(c)
       /\ \E event \in Events(svc) :
            ~CloudEventSchemaOk(event) /\ event.data.requestId = requestId[c]

\* C17: the timeout path acts only after timeoutMs: a call whose timeout
\* arm has fired, whose record the timeout path removed, or that failed
\* with the timeout error has slept for at least timeoutMs, and at least
\* timeoutMs have passed since it was issued.
C17_TimeoutNotEarly ==
  \A c \in Calls :
    (\/ timer[c] = "failed"
     \/ FailedWith(c, TimeoutTags)
     \/ (pc[c] = "racing" /\ ~InRegistry(c)))
      => (/\ slept[c] >= TimeoutMs(svc)
          /\ elapsed[c] >= TimeoutMs(svc))

\* C17 happens: the timeout arm of one call has fired while another call,
\* issued later, is still short of its timeout.
C17_Witness ==
  \E c, d \in Calls :
    /\ timer[c] = "failed" /\ ~InRegistry(c)
    /\ timer[d] = "sleeping" /\ slept[d] < TimeoutMs(svc)

-----------------------------------------------------------------------------
(* Properties of the tool executor *)

\* The handler of tool request t has returned or died.
Ended(t) == toolRequests[t].pc = "done"

\* Tool request t was a well-formed mcp.tool.request event.
WasToolRequest(t) ==
  toolRequests[t].kind \in {"request", "failed", "defect"}

\* C18: once the handler of a tool request that names a tool routeToTool
\* does not know has ended, mcp-tool-responses holds a response with the
\* request's requestId whose error is the "Unknown tool" message.
C18_UnknownToolAnswered ==
  \A t \in ToolRequestIds :
    (Ended(t) /\ WasToolRequest(t) /\ toolRequests[t].tool = "no-such-tool")
      => \E r \in toolResponses :
           /\ r.requestId = t
           /\ r.error = UnknownToolError(toolRequests[t].tool)

\* C19: once the handler of a tool request has ended, whatever the tool and
\* its arguments and whether or not the tool failed, mcp-tool-responses
\* holds a response with the request's requestId that carries a result or
\* an error.
C19_EveryToolRequestAnswered ==
  \A t \in ToolRequestIds :
    (Ended(t) /\ WasToolRequest(t))
      => \E r \in toolResponses :
           /\ r.requestId = t
           /\ (r.result # NoResult \/ r.error # Undefined)

C21_OneSamplingResponsePerRequest ==
  [][\A c \in Calls, content \in LlmResults, publishOk \in BOOLEAN :
       AiEventsSampling(c, content, publishOk)
         => LET out == {r \in aiStreamResponses' :
                          r.requestId = requestId[c]}
            IN /\ Cardinality(out) = 1
               /\ \A r \in out :
                    IF content # Undefined
                      THEN r.result = content /\ r.error = Undefined
                      ELSE Truthy(r.error)]_vars

\* C22: while call b is between registering its record and the end of its
\* publish, a response for a published call a that still waits can be
\* delivered: the response route accepts it, answers 200 and completes
\* a's deferred with that response.
C22_DeliverNotBlockedByPublish ==
  \A a \in Calls : \A b \in Calls \ {a} :
    (/\ pc[b] = "publishing"
     /\ pc[a] = "racing"
     /\ InRegistry(a)
     /\ deferred[a].state = "pending")
      => \A r \in {x \in Responses : x.requestId = requestId[a]} :
           ENABLED (/\ ResponseRoute(CloudEvent(ResponseType(svc), r))
                    /\ replies' = <<200>>
                    /\ deferred'[a].by = r
                    /\ deferred'[a].state =
                         IF Truthy(r.error) THEN "failed" ELSE "succeeded"
                    /\ UNCHANGED nonBridgeVars)

\* C22 happens: a's deferred was completed by its response while b is
\* still inside its publish.
C22_Witness ==
  \E a \in Calls : \E b \in Calls \ {a} :
    /\ pc[b] = "publishing"
    /\ pc[a] = "racing"
    /\ deferred[a].state = "succeeded"
    /\ deferred[a].by.requestId = requestId[a]

-----------------------------------------------------------------------------
(* Topics and subscriptions *)

\* config.getTopicName of readme-mcp, by default.
topicName == "ai-stream"

\* GET /dapr/subscribe of the service that hosts bridge b: ai-svc for the
\* McpBridge, readme-mcp for the LlmClient.
Subscriptions(b) ==
  IF b = "McpBridge"
    THEN {[topic |-> "ai-stream", route |-> "/ai-events"],
          [topic |-> "mcp-tool-responses", route |-> "/mcp-tool-events"]}
    ELSE {[topic |-> topicName \o "-responses", route |-> "/mcp-events"],
          [topic |-> "mcp-tool-requests", route |-> "/mcp-tool-events"]}

\* The route that forwards to the handleResponse of bridge b.
ResponseRoutePath(b) ==
  IF b = "McpBridge" THEN "/mcp-tool-events" ELSE "/mcp-events"

\* The topics the sidecar feeds into the response route of bridge b.
ResponseTopics(b) ==
  {s.topic : s \in {x \in Subscriptions(b) : x.route = ResponseRoutePath(b)}}

\* The topic the peer of bridge b publishes its responses to: readme-mcp
\* answers tool requests, ai-svc answers sampling requests.
PeerResponseTopic(b) ==
  IF b = "McpBridge" THEN "mcp-tool-responses" ELSE "ai-stream-responses"

\* The topic pairs by their names.
ToolTopics == {"mcp-tool-requests", "mcp-tool-responses"}

SamplingTopics == {"ai-stream", "ai-stream-responses"}

OwnTopics(b) == IF b = "McpBridge" THEN ToolTopics ELSE SamplingTopics

\* C24: a bridge publishes its requests only to the request topic of its
\* own pair (mcp-tool-requests for tool calls, ai-stream for sampling), its
\* response route is fed only from the response topic of its own pair, to
\* which its peer publishes the responses, and the two pairs are disjoint.
C24_TopicPairsDisjoint ==
  /\ \A c \in Calls : \A i \in DOMAIN published[c] :
       /\ published[c][i] \in OwnTopics(svc)
       /\ published[c][i] =
            (IF svc = "McpBridge" THEN "mcp-tool-requests" ELSE "ai-stream")
  /\ ResponseTopics(svc) = {PeerResponseTopic(svc)}
  /\ ResponseTopics(svc) \subseteq OwnTopics(svc)
  /\ \A b \in Bridges :
       ({RequestTopic(b)} \cup ResponseTopics(b)) \cap OwnTopics(b)
         = {RequestTopic(b)} \cup ResponseTopics(b)
  /\ ToolTopics \cap SamplingTopics = {}
  /\ \A b \in Bridges \ {svc} :
       ({RequestTopic(svc)} \cup ResponseTopics(svc))
         \cap ({RequestTopic(b)} \cup ResponseTopics(b)) = {}

\* C24 happens: a tool call's request is on mcp-tool-requests and a
\* response from the response route has completed it.
C24_Witness ==
  /\ svc = "McpBridge"
  /\ \E c \in Calls :
       /\ published[c] = <<"mcp-tool-requests">>
       /\ deferred[c].state = "succeeded"
       /\ replies = <<200>>

\* C23: the registry holds at most one record per correlation id, and that
\* record belongs to the one call that was given the id; no two calls that
\* have started have or had the same id; and a record is removed at most
\* once: an id that has left the registry never enters it again, since a
\* record enters only under an id no call had before.
C23_UniqueIdsRemovedOnce ==
  /\ pendingRequests = EmptyMap
  /\ [][/\ \A k \in DOMAIN pendingRequests' :
             Cardinality({c \in Calls :
                            pc'[c] # "idle" /\ requestId'[c] = k}) = 1
        /\ \A a \in Calls : \A b \in Calls \ {a} :
             (pc'[a] # "idle" /\ pc'[b] # "idle")
               => requestId'[a] # requestId'[b]
        /\ \A k \in DOMAIN pendingRequests' \ DOMAIN pendingRequests :
             /\ \A c \in Calls : pc[c] # "idle" => requestId[c] # k
             /\ \E c \in Calls :
                  pc[c] = "idle" /\ pc'[c] # "idle" /\ requestId'[c] = k]_vars

\* C23 happens: two calls have run under different ids and both records
\* are gone; the first one's was removed by the timeout arm and its
\* cleanup then deleted the same id again.
C23_Witness ==
  \E a \in Calls : \E b \in Calls \ {a} :
    /\ pc[a] = "done" /\ pc[b] = "done"
    /\ requestId[a] # requestId[b]
    /\ timer[a] = "failed" /\ outcome[a].tag = "ok"
    /\ DOMAIN pendingRequests = {}

\* C27: of two responses delivered with the correlation id of one call,
\* the first decides.  A call whose waiter a response has resolved
\* completes with the outcome of that response, its payload or the remote
\* error made of its error string, and a later handleResponse with the
\* same id changes neither the waiter nor any outcome nor the registry and
\* is acknowledged like any other.
C27_FirstResponseWins ==
  [][/\ \A c \in Calls :
          (/\ pc'[c] = "done"
           /\ published'[c] # <<>>
           /\ deferred'[c].state # "pending")
            => outcome'[c] =
                 IF deferred'[c].state = "succeeded"
                   THEN [tag |-> "ok", value |-> deferred'[c].by.result,
                         cause |-> <<>>]
                   ELSE [tag |-> "fail", value |-> Undefined,
                         cause |-> <<RemoteError(svc, toolName'[c],
                                                 deferred'[c].by.error)>>]
     /\ \A c \in Calls : \A response \in Responses :
          (/\ published[c] # <<>>
           /\ deferred[c].state # "pending"
           /\ response.requestId = requestId[c]
           /\ handleResponse(response))
            => (/\ UNCHANGED <<pendingRequests, deferred, outcome, pc>>
                /\ replies' = <<200>>)]_vars

\* C28: a step that completes call c, by its timeout arm, by the delivery
\* of a response that resolves its waiter, or by its leaving the race and
\* returning, takes at most c's own record out of the registry and leaves
\* the records, waiters, timers and outcomes of all other calls as they
\* were.
C28_CompletionRemovesOwnRecordOnly ==
  [][\A c \in Calls :
       (\/ timer'[c] # timer[c] /\ timer[c] = "sleeping"
        \/ deferred'[c] # deferred[c]
        \/ pc'[c] # pc[c] /\ pc[c] \in {"racing", "cleanup"})
         => /\ \A k \in DOMAIN pendingRequests \ {requestId[c]} :
                 /\ k \in DOMAIN pendingRequests'
                 /\ pendingRequests'[k] = pendingRequests[k]
            /\ \A d \in Calls \ {c} :
                 /\ deferred'[d] = deferred[d]
                 /\ pc'[d] = pc[d]
                 /\ timer'[d] = timer[d]
                 /\ outcome'[d] = outcome[d]]_vars

\* C28 happens: one call has completed and its record is gone while
\* another call still waits with its record in the registry.
C28_Witness ==
  \E a \in Calls : \E b \in Calls \ {a} :
    /\ pc[a] = "done" /\ published[a] # <<>> /\ ~InRegistry(a)
    /\ pc[b] = "racing" /\ deferred[b].state = "pending" /\ InRegistry(b)

\* C29: a well-formed event on a response route whose type is not the
\* response type of the bridge is acknowledged with 200 and not forwarded
\* to handleResponse: nothing is logged by it, and the registry, the
\* waiters and all calls stay as they were, also when the event's data
\* carries the id of a pending call.
C29_OtherTypeAcknowledgedAndIgnored ==
  [][\A type \in EventTypes \ {ResponseType(svc)} :
       \A response \in ProbeResponses :
         ResponseRoute(CloudEvent(type, response))
           => (/\ replies' = <<200>>
               /\ lastLog' = "none"
               /\ UNCHANGED <<pendingRequests, nextId, pc, toolName,
                              requestId, deferred, timer, outcome,
                              published>>)]_vars

\* C29 happens: the route has acknowledged an event of another type while
\* a call waits for its response.
C29_Witness ==
  /\ replies = <<200>>
  /\ lastLog = "none"
  /\ \E c \in Calls :
       pc[c] = "racing" /\ deferred[c].state = "pending" /\ InRegistry(c)

\* C30: once the handler of POST /mcp-tool-events of readme-mcp has ended
\* on a delivered event, whatever the event (a tool request, a well-formed
\* event of another type, a body that does not decode), it has sent
\* exactly one HTTP reply, and no handler ever sends more than one.
C30_OneReplyPerToolEvent ==
  \A t \in ToolRequestIds :
    /\ Len(toolReplies[t]) <= 1
    /\ toolRequests[t].pc = "done"
         => (Len(toolReplies[t]) = 1 /\ toolReplies[t][1] \in {200, 500})

\* C25: the chat history stored for a session id carries that sessionId
\* and holds only messages of invocations made with that sessionId, however
\* the invocations of different sessions interleave.
C25_HistoriesDoNotMix ==
  \A s \in SessionIds :
    LET state == StateGet(stateStore, ChatStateKey(s)) IN
    state # NoState
      => /\ state.sessionId = s
         /\ \A k \in DOMAIN state.messages :
              \E i \in Invocations :
                /\ invocations[i].sessionId = s
                /\ state.messages[k] \in
                     {ChatMessage("user", UserContent(i)),
                      ChatMessage("assistant", Output(i))}

\* C25 happens: an invocation of one session has saved its history while
\* an invocation of another session, started before it, is still between
\* its agent's answer and its own save.
C25_Witness ==
  \E i \in Invocations : \E j \in Invocations :
    /\ j < i
    /\ invocations[i].sessionId \in SessionIds
    /\ invocations[j].sessionId \in SessionIds \ {invocations[i].sessionId}
    /\ invocations[j].pc \in {"reading", "saving"}
    /\ invocations[i].pc = "done"
    /\ \E k \in DOMAIN StateGet(stateStore,
                                ChatStateKey(invocations[i].sessionId)).messages :
         StateGet(stateStore,
                  ChatStateKey(invocations[i].sessionId)).messages[k]
           = ChatMessage("user", UserContent(i))

\* C26: once the startup registration has finished, listAgents holds
\* "default", "assistant" and "readme-agent", and no step after that takes
\* an agent out of the registry.
C26_DefaultAgentsStay ==
  [][startup'.pc = "done"
       => /\ {"default", "assistant", "readme-agent"} \subseteq listAgents'
          /\ startup.pc = "done" => listAgents \subseteq listAgents']_vars

\* C26 happens: the startup has finished and an agent request was served
\* afterwards.
C26_Witness ==
  /\ startup.pc = "done"
  /\ {"default", "assistant", "readme-agent"} \subseteq listAgents
  /\ \E i \in Invocations :
       invocations[i].pc = "done" /\ invocations[i].output = Output(i)

\* C31: the stored history of a session holds the user/assistant message
\* pair of every completed invokeAgent call on that session whose save
\* succeeded, also when calls on the session overlap.
C31_NoTurnLost ==
  \A i \in Invocations :
    (/\ invocations[i].pc = "done"
     /\ invocations[i].saved
     /\ invocations[i].sessionId \in SessionIds)
      => LET messages ==
               StateGet(stateStore,
                        ChatStateKey(invocations[i].sessionId)).messages
         IN \E k \in 1..(Len(messages) - 1) :
              /\ messages[k] = ChatMessage("user", UserContent(i))
              /\ messages[k + 1] = ChatMessage("assistant", Output(i))

\* C32: a save of invokeAgent that succeeds extends the history stored for
\* the session by exactly the user message and then the assistant message
\* of the call: the messages stored before are an unchanged prefix, and a
\* state stored before keeps its sessionId and created_at.  A call without
\* sessionId makes no getChatHistory call and saves nothing.
C32_SaveAppendsOnePair ==
  [][/\ \A i \in Invocations :
          (invocations[i].pc = "saving" /\ invocations'[i].saved)
            => LET key == ChatStateKey(invocations[i].sessionId)
                   before == StateGet(stateStore, key)
                   after == StateGet(stateStore', key)
               IN /\ after.messages =
                       before.messages
                         \o <<ChatMessage("user", UserContent(i)),
                              ChatMessage("assistant", Output(i))>>
                  /\ after.sessionId = invocations[i].sessionId
                  /\ before # NoState
                       => /\ after.sessionId = before.sessionId
                          /\ after.created_at = before.created_at
     /\ \A i \in Invocations :
          invocations'[i].sessionId = Undefined
            => /\ invocations'[i].reads = 0
               /\ ~invocations'[i].saved
               /\ invocations'[i].pc # invocations[i].pc
                    => stateStore' = stateStore]_vars

\* C33: an invokeAgent for an agentId that is not in the registry ends at
\* once with AgentNotFoundError: no agent graph was invoked, no
\* getChatHistory call was made, nothing was saved, and the registry and
\* the store are as they were.
C33_UnknownAgentFailsClean ==
  [][\A i \in Invocations :
       (/\ invocations[i].pc = "none"
        /\ invocations'[i].pc # "none"
        /\ invocations'[i].agentId \notin listAgents)
         => /\ invocations'[i].pc = "done"
            /\ invocations'[i].error = "AgentNotFoundError"
            /\ invocations'[i].output = <<>>
            /\ invocations'[i].reads = 0
            /\ ~invocations'[i].saved
            /\ UNCHANGED <<registry, stateStore>>]_vars

\* C33 happens: a request with a sessionId for an unknown agent has failed
\* while the session has a stored history.
C33_Witness ==
  \E i \in Invocations :
    /\ invocations[i].error = "AgentNotFoundError"
    /\ invocations[i].sessionId \in SessionIds
    /\ StateGet(stateStore, ChatStateKey(invocations[i].sessionId)) # NoState

\* C34: a failure of the chat-history store does not fail an invocation.
\* When the first getChatHistory fails the agent is invoked with an empty
\* history; when the second one fails the call goes on to save; when the
\* save fails the call still returns the agent's output; and no call ever
\* ends with an error other than AgentNotFoundError or
\* AgentInvocationError.
C34_StoreFailureDoesNotFailCall ==
  [][\A i \in Invocations :
       /\ invocations'[i].error \in
            {"none", "AgentNotFoundError", "AgentInvocationError"}
       /\ \A agentId \in RequestedAgents \cap listAgents :
            \A sessionId \in SessionIds :
              invokeAgent(i, agentId, sessionId, FALSE)
                => /\ invocations'[i].pc = "invoking"
                   /\ invocations'[i].chatHistory = <<>>
       /\ getExistingState(i, FALSE)
            => /\ invocations'[i].pc = "saving"
               /\ invocations'[i].error = "none"
       /\ saveChatHistory(i, FALSE)
            => /\ invocations'[i].pc = "done"
               /\ invocations'[i].error = "none"
               /\ invocations'[i].output = Output(i)]_vars

\* C34 happens: a call on a session with a stored history has returned
\* its output although its save failed.
C34_Witness ==
  \E i \in Invocations :
    /\ invocations[i].pc = "done"
    /\ invocations[i].sessionId \in SessionIds
    /\ invocations[i].reads = 2
    /\ ~invocations[i].saved
    /\ invocations[i].error = "none"
    /\ invocations[i].output = Output(i)
    /\ StateGet(stateStore, ChatStateKey(invocations[i].sessionId)) # NoState

\* C35: a run of the README agent graph goes extract -> validate -> respond.
\* It makes at most one tool call, none when the README content is empty; a
\* run that reached respond after a failed tool call carries a
\* validationResult with an error; and a run that waits for its tool call
\* always gets to respond, whatever becomes of the call (timeout, remote
\* error or publish failure).
C35_ValidateFailureReachesRespond ==
  /\ [](\A g \in GraphRuns :
          /\ graphs[g].toolCalls <= 1
          /\ graphs[g].readmeContent = "" => graphs[g].toolCalls = 0
          /\ graphs[g].node \in {"respond", "done", "failed"} =>
               /\ graphs[g].validationResult # NoValidation
               /\ (graphs[g].toolCalls = 1 /\ outcome[graphs[g].call].tag = "fail")
                    => graphs[g].validationResult.error # Undefined)
  /\ \A g \in GraphRuns :
       (graphs[g].node = "validating")
         ~> (graphs[g].node \in {"respond", "done", "failed"})

\* C36: POST /ai-events handles each well-formed event one way.  An event
\* of type "agent.request" reaches the agent handler and nothing else; any
\* other event of type "sampling.request", or whose data contains a
\* requestId, reaches the sampling service and not the agent handler; every
\* other event is answered 400 with no agent call, no sampling call and
\* nothing published.
C36_EventClassifiedOneWay ==
  \A e \in EventIds :
    aiEvents[e].pc \in {"done", "died"} =>
      LET event == aiEvents[e].event
          containsRequestId ==
            ~event.data.isNull /\ event.data.requestId # Undefined
      IN IF event.type = "agent.request"
           THEN /\ aiEvents[e].agentCalls = 1
                /\ aiEvents[e].samplingCalls = 0
                /\ aiEvents[e].publishes = 0
           ELSE IF event.type = "sampling.request" \/ containsRequestId
             THEN /\ aiEvents[e].samplingCalls = 1
                  /\ aiEvents[e].agentCalls = 0
             ELSE /\ aiEvents[e].reply = <<400>>
                  /\ aiEvents[e].agentCalls = 0
                  /\ aiEvents[e].samplingCalls = 0
                  /\ aiEvents[e].publishes = 0
====
